---- MODULE Spec2Model ----
(***************************************************************************)
(* flatkvm-agent: the in-guest agent of flatkvm.                           *)
(*                                                                         *)
(* The model follows src/main.rs, src/dbus_listener.rs and src/udevmon.rs: *)
(* producer threads (host listener, clipboard listener and translator,     *)
(* D-Bus notification server, udev monitor, one waiter per spawned app)    *)
(* push Messages into the common mpsc channel; the main thread consumes    *)
(* the channel and is the only user of agent_writer and of the clipboard   *)
(* store.  exit(-1) and a panic of the main thread end every thread.       *)
(***************************************************************************)
EXTENDS Integers, Sequences, FiniteSets, TLC

(***************************************************************************)
(* Bounds of the model.                                                    *)
(***************************************************************************)
\* Inputs the environment delivers over a run: messages of the host, notify
\* calls on the session bus, selections made by the user of the guest, udev
\* events and poll errors.
MaxInputs == 2
\* Times the mount target is resolved for one request when do_mount_request
\* is studied on its own.
MaxResolves == 2

(***************************************************************************)
(* Program constants.                                                      *)
(***************************************************************************)
InitialNotificationId == 5
PanicStatus == 101

Reqs == 1..MaxInputs

\* QemuSharedDirType values a host request of the model carries.
DirTypes == {"FlatpakSystemDir", "FlatpakAppDir"}
RemoteData == {"r1"}
LocalData == {"l1"}
Layouts == {"us"}
CloseReasons == {2}
\* Notification ids the host closes: the first two ids notify hands out.
CloseIds == {InitialNotificationId, InitialNotificationId + 1}
\* event.sysname() of the udev events of the model.
SysNames == {"card0", "sda"}

\* The arguments of a notify call: summary, body, expire_timeout.
NotifyArgs ==
    { [summary |-> "Hi", body |-> "body", timeout |-> 5000],
      [summary |-> "Yo", body |-> "text", timeout |-> -1] }

\* std::process::ExitStatus of a command that ran: an exit code, or none
\* (killed by a signal).
ExitStatuses ==
    { [hasCode |-> TRUE, code |-> 0],
      [hasCode |-> TRUE, code |-> 32],
      [hasCode |-> FALSE, code |-> 0] }

\* Faulty variant of ExitCodeOf: a command without exit code counts as success.
ExitCodeOfLenient(status) == IF status.hasCode THEN status.code ELSE 0

\* exit_status.code() mapped as `Some(code) => code, None => -1`.
ExitCodeOf(status) == IF status.hasCode THEN status.code ELSE -1

\* The status the operating system reports for exit(code).
ProcessStatus(code) == code % 256

(***************************************************************************)
(* message::Message values; req is the position of the host message (or   *)
(* of the run request of the waited child) the event stems from.           *)
(***************************************************************************)
BaseMsg ==
    [type |-> "", req |-> 0, dir |-> "", data |-> "", origin |-> "",
     id |-> 0, summary |-> "", body |-> "", timeout |-> 0, reason |-> 0,
     code |-> 0]

MountRequestMsg(r, d) == [BaseMsg EXCEPT !.type = "MountRequest", !.req = r, !.dir = d]
RunRequestMsg(r) == [BaseMsg EXCEPT !.type = "RunRequest", !.req = r]
LayoutRequestMsg(r, l) == [BaseMsg EXCEPT !.type = "LayoutRequest", !.req = r, !.data = l]
RemoteClipboardEventMsg(r, d) ==
    [BaseMsg EXCEPT !.type = "RemoteClipboardEvent", !.req = r, !.data = d]
LocalClipboardEventMsg(d, o) ==
    [BaseMsg EXCEPT !.type = "LocalClipboardEvent", !.data = d, !.origin = o]
\* `nid as u32`: the counter is a usize and the cast keeps the low 32 bits,
\* which is every bit of a value below 2^32; the counter of a run of the
\* model stays below InitialNotificationId + MaxNotify.
AsU32(nid) == nid

\* Faulty variant of DbusNotificationMsg: summary and body are exchanged.
DbusNotificationMsgSwapped(nid, a) ==
    [BaseMsg EXCEPT !.type = "DbusNotification", !.id = AsU32(nid),
                    !.summary = a.body, !.body = a.summary, !.timeout = a.timeout]

DbusNotificationMsg(nid, a) ==
    [BaseMsg EXCEPT !.type = "DbusNotification", !.id = AsU32(nid),
                    !.summary = a.summary, !.body = a.body, !.timeout = a.timeout]
DbusNotificationClosedMsg(r, i, why) ==
    [BaseMsg EXCEPT !.type = "DbusNotificationClosed", !.req = r, !.id = i, !.reason = why]
AppExitMsg(r, c) == [BaseMsg EXCEPT !.type = "AppExit", !.req = r, !.code = c]

VARIABLES
    procState,      \* "running" | "exited"
    exitStatus,     \* status of the process once exited
    exitCause,      \* the failure that ended the process
    inputs,         \* inputs the environment has delivered so far
    hostLog,        \* kinds of the messages read from the host, in order
    chan,           \* common_sender -> common_receiver
    sentLog,        \* every Message sent on the common channel, in order
    recvLog,        \* every Message the main thread has received, in order
    active,         \* numbers of the Messages whose handler is executing
    pc,             \* position of the main thread
    cur,            \* the Message the main thread is handling
    exit_status,    \* exit_status local of the running handler
    ackval,         \* exit_code local of the running handler
    hostOut,        \* writes on agent_writer, in order
    failure,        \* per host message: how its handler failed, "" if not
    handled,        \* host messages whose handler has returned
    children,       \* per run request: "none" | "running" | "exited" | "reaped"
    childCode,      \* per run request: exit code child.wait() yields
    waiters,        \* run requests with a waiter thread
    cb_used_flag,   \* the AtomicBool shared with the ClipboardListener
    clipboard,      \* the X11 clipboard selection, and who stored it
    cbChanges,      \* selection changes the ClipboardListener has yet to see
    clipboard_chan, \* clipboard_sender -> clipboard_receiver
    DBUS_SENDER,    \* TRUE once the static holds Some(sender)
    DBUS_NOTIFICATION_ID,
    dbus_pc,        \* position of the notification thread
    dbus_call,      \* nid and arguments of the notify call in progress
    dbus_nc,        \* dbus_nc_sender -> dbus_nc_receiver
    signals,        \* NotificationClosed signals emitted on the bus
    notifyLog,      \* completed notify calls: returned id and arguments
    udev_pc,        \* position of the udev thread
    monitorCalls,   \* calls of udevmon::monitor so far
    udevLog,        \* what the monitor got, in order: sysname of an event, or "poll error"
    xrandrRuns,     \* invocations of xrandr by the monitor, in order
    fn_args,        \* arguments of the function applied on its own
    fn_result       \* what the applications of the function returned

procVars == <<procState, exitStatus, exitCause>>
hostVars == <<inputs, hostLog>>
chanVars == <<chan, sentLog>>
mainVars == <<pc, cur, recvLog, active, exit_status, ackval, hostOut, failure, handled>>
childVars == <<children, childCode, waiters>>
clipVars == <<cb_used_flag, clipboard, cbChanges, clipboard_chan>>
dbusVars == <<DBUS_SENDER, DBUS_NOTIFICATION_ID, dbus_pc, dbus_call, dbus_nc,
              signals, notifyLog>>
udevVars == <<udev_pc, monitorCalls, udevLog, xrandrRuns>>
agentVars == <<procVars, hostVars, chanVars, mainVars, childVars, clipVars, dbusVars, udevVars>>
fnVars == <<fn_args, fn_result>>
vars == <<agentVars, fnVars>>

Running == procState = "running"

\* Number of the next message of the host; number of the Message in hand.
hostSeq == Len(hostLog)
deqCount == Len(recvLog)

\* exit_status before a command has run.
NoStatus == [hasCode |-> FALSE, code |-> 0]

\* fn_args while the agent itself runs.
NoArgs == [fn |-> "none"]

NoCall == [nid |-> 0, args |-> [summary |-> "", body |-> "", timeout |-> 0]]

AgentInit ==
    /\ procState = "running"
    /\ exitStatus = 0
    /\ exitCause = ""
    /\ inputs = 0
    /\ hostLog = <<>>
    /\ chan = <<>>
    /\ sentLog = <<>>
    /\ recvLog = <<>>
    /\ active = {}
    /\ pc = "recv"
    /\ cur = BaseMsg
    /\ exit_status = NoStatus
    /\ ackval = 0
    /\ hostOut = <<>>
    /\ failure = [r \in Reqs |-> ""]
    /\ handled = {}
    /\ children = [r \in Reqs |-> "none"]
    /\ childCode = [r \in Reqs |-> 0]
    /\ waiters = {}
    /\ cb_used_flag = FALSE
    /\ clipboard = [data |-> "", origin |-> "", by |-> ""]
    /\ cbChanges = <<>>
    /\ clipboard_chan = <<>>
    /\ DBUS_SENDER = FALSE
    /\ DBUS_NOTIFICATION_ID = InitialNotificationId
    /\ dbus_pc = "start"
    /\ dbus_call = NoCall
    /\ dbus_nc = <<>>
    /\ signals = <<>>
    /\ notifyLog = <<>>
    /\ udev_pc = "poll"
    /\ monitorCalls = 1
    /\ udevLog = <<>>
    /\ xrandrRuns = <<>>

Init ==
    /\ AgentInit
    /\ fn_args = NoArgs
    /\ fn_result = <<>>

\* std::process::exit(code), or the main thread panicking: every thread ends.
Exit(code, cause) ==
    /\ procState' = "exited"
    /\ exitStatus' = ProcessStatus(code)
    /\ exitCause' = cause

\* Faulty variant of Send: the channel puts the newest Message first.
SendFirst(m) == chan' = <<m>> \o chan /\ sentLog' = Append(sentLog, m)

\* Sender::send on the common channel.
Send(m) == chan' = Append(chan, m) /\ sentLog' = Append(sentLog, m)

(***************************************************************************)
(* Host listener thread: main.rs 326-335 around get_and_process_event.     *)
(***************************************************************************)
HostEnqueue(kind, m) ==
    /\ Running
    /\ inputs < MaxInputs
    /\ inputs' = inputs + 1
    /\ hostLog' = Append(hostLog, kind)
    /\ Send(m)
    /\ UNCHANGED <<procVars, mainVars, childVars, clipVars, dbusVars, udevVars>>
    /\ UNCHANGED fnVars

HostMountRequest == \E d \in DirTypes : HostEnqueue("AgentMountRequest", MountRequestMsg(hostSeq + 1, d))

HostRunRequest == HostEnqueue("AgentRunRequest", RunRequestMsg(hostSeq + 1))

HostLayoutRequest == \E l \in Layouts : HostEnqueue("AgentLayoutRequest", LayoutRequestMsg(hostSeq + 1, l))

HostClipboardEvent == \E d \in RemoteData : HostEnqueue("ClipboardEvent", RemoteClipboardEventMsg(hostSeq + 1, d))

HostNotificationClosed ==
    \E i \in CloseIds, why \in CloseReasons :
        HostEnqueue("DbusNotificationClosed", DbusNotificationClosedMsg(hostSeq + 1, i, why))

\* Faulty variant of HostProtocolError: the listener logs the unexpected
\* message and goes on reading.
HostProtocolErrorIgnored ==
    /\ Running
    /\ inputs < MaxInputs
    /\ inputs' = inputs + 1
    /\ hostLog' = Append(hostLog, "unexpected")
    /\ UNCHANGED <<procVars, chanVars, mainVars, childVars, clipVars, dbusVars, udevVars>>
    /\ UNCHANGED fnVars

\* get_event fails, or yields a message no arm matches: Err, then exit(-1).
HostProtocolError ==
    /\ Running
    /\ inputs < MaxInputs
    /\ inputs' = inputs + 1
    /\ hostLog' = Append(hostLog, "unexpected")
    /\ Exit(-1, "protocol")
    /\ UNCHANGED <<chanVars, mainVars, childVars, clipVars, dbusVars, udevVars>>
    /\ UNCHANGED fnVars

(***************************************************************************)
(* Writes on agent_writer (send_ack, send_clipboard_event,                 *)
(* send_dbus_notification, send_exit_code).  req, cause, ok and by record  *)
(* the request answered, the number of the Message being handled, whether  *)
(* the write succeeded and the thread that wrote.                          *)
(***************************************************************************)
BaseOut ==
    [kind |-> "", code |-> 0, data |-> "", origin |-> "", id |-> 0,
     summary |-> "", body |-> "", timeout |-> 0, req |-> 0, cause |-> 0,
     ok |-> TRUE, by |-> ""]

AckOut(r, c, ok) ==
    [BaseOut EXCEPT !.kind = "ack", !.code = c, !.req = r, !.cause = deqCount,
                    !.ok = ok, !.by = "main"]
ClipboardOut(m, ok) ==
    [BaseOut EXCEPT !.kind = "clipboard", !.data = m.data, !.origin = m.origin,
                    !.cause = deqCount, !.ok = ok, !.by = "main"]
NotificationOut(m, ok) ==
    [BaseOut EXCEPT !.kind = "notification", !.id = m.id, !.summary = m.summary,
                    !.body = m.body, !.timeout = m.timeout,
                    !.cause = deqCount, !.ok = ok, !.by = "main"]
ExitCodeOut(m, ok) ==
    [BaseOut EXCEPT !.kind = "exit_code", !.code = m.code, !.req = m.req,
                    !.cause = deqCount, !.ok = ok, !.by = "main"]

HostWrite(o) == hostOut' = Append(hostOut, o)

\* The first step of the match arm of main's loop for a Message type.
HandlerEntry(type) ==
    CASE type = "LocalClipboardEvent" -> "clip_send"
      [] type = "RemoteClipboardEvent" -> "rclip_flag"
      [] type = "DbusNotification" -> "notif_send"
      [] type = "DbusNotificationClosed" -> "nc_forward"
      [] type = "AppExit" -> "exit_send"
      [] type = "MountRequest" -> "mount_dir"
      [] type = "RunRequest" -> "run_spawn"
      [] type = "LayoutRequest" -> "layout_exec"

(***************************************************************************)
(* Main thread: `for msg in common_receiver`, main.rs 347-427.             *)
(***************************************************************************)
\* Faulty variant of Recv: the channel hands out its newest Message first.
RecvLast ==
    /\ Running
    /\ pc = "recv"
    /\ chan # <<>>
    /\ cur' = chan[Len(chan)]
    /\ chan' = SubSeq(chan, 1, Len(chan) - 1)
    /\ recvLog' = Append(recvLog, chan[Len(chan)])
    /\ active' = active \cup {deqCount + 1}
    /\ pc' = HandlerEntry(chan[Len(chan)].type)
    /\ UNCHANGED <<procVars, hostVars, sentLog, exit_status, ackval, hostOut, failure, handled,
                   childVars, clipVars, dbusVars, udevVars>>
    /\ UNCHANGED fnVars

Recv ==
    /\ Running
    /\ pc = "recv"
    /\ chan # <<>>
    /\ cur' = Head(chan)
    /\ chan' = Tail(chan)
    /\ recvLog' = Append(recvLog, Head(chan))
    /\ active' = active \cup {deqCount + 1}
    /\ pc' = HandlerEntry(Head(chan).type)
    /\ UNCHANGED <<procVars, hostVars, sentLog, exit_status, ackval, hostOut, failure, handled,
                   childVars, clipVars, dbusVars, udevVars>>
    /\ UNCHANGED fnVars

\* The handler returned Ok: back to the channel.
Return == pc' = "recv" /\ active' = active \ {deqCount} /\ UNCHANGED procVars

\* The handler goes on with its next step.
Goto(step) == pc' = step /\ UNCHANGED <<active, procVars>>

\* exit(code) or a panic inside the handler.
Die(code, cause) == UNCHANGED <<pc, active>> /\ Exit(code, cause)

\* LocalClipboardEvent: send_clipboard_event(ce).unwrap()
LocalClipboardHandler ==
    /\ Running
    /\ pc = "clip_send"
    /\ \E ok \in BOOLEAN :
        /\ HostWrite(ClipboardOut(cur, ok))
        /\ IF ok THEN Return ELSE Die(PanicStatus, "clip_send")
    /\ UNCHANGED <<hostVars, chanVars, cur, recvLog, exit_status, ackval, failure, handled,
                   childVars, clipVars, dbusVars, udevVars>>
    /\ UNCHANGED fnVars

\* Faulty variant of RemoteClipboardFlag: the handler goes to the store
\* without raising the flag.
RemoteClipboardFlagSkipped ==
    /\ Running
    /\ pc = "rclip_flag"
    /\ Goto("rclip_store")
    /\ UNCHANGED <<hostVars, chanVars, cur, recvLog, exit_status, ackval, hostOut,
                   failure, handled, childVars, clipVars, dbusVars, udevVars>>
    /\ UNCHANGED fnVars

\* RemoteClipboardEvent: cb_used_flag.store(true, Relaxed)
RemoteClipboardFlag ==
    /\ Running
    /\ pc = "rclip_flag"
    /\ cb_used_flag' = TRUE
    /\ Goto("rclip_store")
    /\ UNCHANGED <<hostVars, chanVars, cur, recvLog, exit_status, ackval, hostOut,
                   failure, handled, childVars, clipboard, cbChanges,
                   clipboard_chan, dbusVars, udevVars>>
    /\ UNCHANGED fnVars

\* RemoteClipboardEvent: clipboard.store(...), exit(-1) on Err
RemoteClipboardStore ==
    /\ Running
    /\ pc = "rclip_store"
    /\ \E ok \in BOOLEAN :
        IF ok
        THEN /\ clipboard' = [data |-> cur.data, origin |-> "remote", by |-> "main"]
             /\ cbChanges' = Append(cbChanges, clipboard')
             /\ Return
             /\ UNCHANGED failure
        ELSE /\ failure' = [failure EXCEPT ![cur.req] = "store"]
             /\ Die(-1, "clip_store")
             /\ UNCHANGED <<clipboard, cbChanges>>
    /\ UNCHANGED <<hostVars, chanVars, cur, recvLog, exit_status, ackval, hostOut,
                   handled, childVars, cb_used_flag, clipboard_chan, dbusVars, udevVars>>
    /\ UNCHANGED fnVars

\* Faulty variant of NotificationHandler: a failed delivery is dropped and the
\* loop goes on.
NotificationHandlerLenient ==
    /\ Running
    /\ pc = "notif_send"
    /\ \E ok \in BOOLEAN : HostWrite(NotificationOut(cur, ok))
    /\ Return
    /\ UNCHANGED <<hostVars, chanVars, cur, recvLog, exit_status, ackval, failure, handled,
                   childVars, clipVars, dbusVars, udevVars>>
    /\ UNCHANGED fnVars

\* DbusNotification: send_dbus_notification(dn).unwrap()
NotificationHandler ==
    /\ Running
    /\ pc = "notif_send"
    /\ \E ok \in BOOLEAN :
        /\ HostWrite(NotificationOut(cur, ok))
        /\ IF ok THEN Return ELSE Die(PanicStatus, "notif_send")
    /\ UNCHANGED <<hostVars, chanVars, cur, recvLog, exit_status, ackval, failure, handled,
                   childVars, clipVars, dbusVars, udevVars>>
    /\ UNCHANGED fnVars

\* DbusNotificationClosed: dbus_nc_sender.send(nc).unwrap(); the send fails
\* once the notification thread has ended and dropped the receiver.
NotificationClosedHandler ==
    /\ Running
    /\ pc = "nc_forward"
    /\ IF dbus_pc = "dead"
       THEN /\ Die(PanicStatus, "nc_forward")
            /\ UNCHANGED dbus_nc
       ELSE /\ dbus_nc' = Append(dbus_nc, cur)
            /\ Return
    /\ UNCHANGED <<hostVars, chanVars, cur, recvLog, exit_status, ackval, hostOut, failure,
                   handled, childVars, clipVars, DBUS_SENDER,
                   DBUS_NOTIFICATION_ID, dbus_pc, dbus_call, signals,
                   notifyLog, udevVars>>
    /\ UNCHANGED fnVars

\* Faulty variant of AppExitHandler: once the exit code is forwarded the loop
\* is left and main returns.
AppExitHandlerEnds ==
    /\ Running
    /\ pc = "exit_send"
    /\ \E ok \in BOOLEAN :
        /\ HostWrite(ExitCodeOut(cur, ok))
        /\ IF ok THEN Die(0, "ended") ELSE Die(-1, "exit_code")
    /\ UNCHANGED <<hostVars, chanVars, cur, recvLog, exit_status, ackval, failure, handled,
                   childVars, clipVars, dbusVars, udevVars>>
    /\ UNCHANGED fnVars

\* AppExit: send_exit_code(ec), exit(-1) on Err
AppExitHandler ==
    /\ Running
    /\ pc = "exit_send"
    /\ \E ok \in BOOLEAN :
        /\ HostWrite(ExitCodeOut(cur, ok))
        /\ IF ok THEN Return ELSE Die(-1, "exit_code")
    /\ UNCHANGED <<hostVars, chanVars, cur, recvLog, exit_status, ackval, failure, handled,
                   childVars, clipVars, dbusVars, udevVars>>
    /\ UNCHANGED fnVars

\* Faulty variant of Fail: main logs the Err and stays in its loop.
FailContinue(r, why, cause) ==
    /\ failure' = [failure EXCEPT ![r] = why]
    /\ handled' = handled \cup {r}
    /\ pc' = "recv"
    /\ active' = active \ {deqCount}
    /\ UNCHANGED procVars

\* The handler returned Err: main logs it and calls exit(-1).
Fail(r, why, cause) ==
    /\ failure' = [failure EXCEPT ![r] = why]
    /\ handled' = handled \cup {r}
    /\ Die(-1, cause)

\* do_mount_request, lines 48-70: the target needs create_dir_all for every
\* dir_type but FlatpakSystemDir; its Err is returned with `?`.
MountDir ==
    /\ Running
    /\ pc = "mount_dir"
    /\ \E created \in BOOLEAN :
        IF cur.dir = "FlatpakSystemDir" \/ created
        THEN /\ Goto("mount_exec")
             /\ UNCHANGED <<failure, handled>>
        ELSE Fail(cur.req, "mkdir", "mount")
    /\ UNCHANGED <<hostVars, chanVars, cur, recvLog, exit_status, ackval, hostOut,
                   childVars, clipVars, dbusVars, udevVars>>
    /\ UNCHANGED fnVars

\* do_mount_request, lines 72-89: shlex::split of the argument line, then
\* Command::new("sudo").args(args).status().
MountExec ==
    /\ Running
    /\ pc = "mount_exec"
    /\ \/ /\ Fail(cur.req, "args", "mount")
          /\ UNCHANGED <<exit_status, ackval>>
       \/ /\ Fail(cur.req, "exec", "mount")
          /\ UNCHANGED <<exit_status, ackval>>
       \/ \E st \in ExitStatuses :
            /\ exit_status' = st
            /\ ackval' = ExitCodeOf(st)
            /\ Goto("mount_ack")
            /\ UNCHANGED <<failure, handled>>
    /\ UNCHANGED <<hostVars, chanVars, cur, recvLog, hostOut,
                   childVars, clipVars, dbusVars, udevVars>>
    /\ UNCHANGED fnVars

\* Faulty variant of SendAck: the handler returns Ok without writing the ack.
SendAckSkipped(at, cause) ==
    /\ Running
    /\ pc = at
    /\ pc' = "recv"
    /\ active' = active \ {deqCount}
    /\ handled' = handled \cup {cur.req}
    /\ UNCHANGED <<procVars, hostVars, chanVars, cur, recvLog, exit_status, ackval, hostOut,
                   failure, childVars, clipVars, dbusVars, udevVars>>
    /\ UNCHANGED fnVars

\* agent.send_ack(exit_code)? at the end of do_mount_request and of
\* do_layout_request.
SendAck(at, cause) ==
    /\ Running
    /\ pc = at
    /\ \E ok \in BOOLEAN :
        /\ HostWrite(AckOut(cur.req, ackval, ok))
        /\ IF ok
           THEN /\ Return
                /\ handled' = handled \cup {cur.req}
                /\ UNCHANGED failure
           ELSE Fail(cur.req, "send", cause)
    /\ UNCHANGED <<hostVars, chanVars, cur, recvLog, exit_status, ackval,
                   childVars, clipVars, dbusVars, udevVars>>
    /\ UNCHANGED fnVars

MountAck == SendAck("mount_ack", "mount")

\* do_layout_request, lines 125-137: Command::new("setxkbmap").status().
LayoutExec ==
    /\ Running
    /\ pc = "layout_exec"
    /\ \/ /\ Fail(cur.req, "exec", "layout")
          /\ UNCHANGED <<exit_status, ackval>>
       \/ \E st \in ExitStatuses :
            /\ exit_status' = st
            /\ ackval' = ExitCodeOf(st)
            /\ Goto("layout_ack")
            /\ UNCHANGED <<failure, handled>>
    /\ UNCHANGED <<hostVars, chanVars, cur, recvLog, hostOut,
                   childVars, clipVars, dbusVars, udevVars>>
    /\ UNCHANGED fnVars

LayoutAck == SendAck("layout_ack", "layout")

\* do_run_request, lines 100-106: spawn_app(rr).
RunSpawn ==
    /\ Running
    /\ pc = "run_spawn"
    /\ \E spawned \in BOOLEAN :
        IF spawned
        THEN /\ children' = [children EXCEPT ![cur.req] = "running"]
             /\ Goto("run_ack")
             /\ UNCHANGED failure
        ELSE /\ failure' = [failure EXCEPT ![cur.req] = "spawn"]
             /\ Goto("run_nack")
             /\ UNCHANGED children
    /\ UNCHANGED <<hostVars, chanVars, cur, recvLog, exit_status, ackval, hostOut,
                   handled, childCode, waiters, clipVars, dbusVars, udevVars>>
    /\ UNCHANGED fnVars

\* do_run_request, lines 103-104: agent.send_ack(-1)?; return Err(..):
\* whether or not the ack is written, the handler returns Err.
RunNack ==
    /\ Running
    /\ pc = "run_nack"
    /\ \E ok \in BOOLEAN : HostWrite(AckOut(cur.req, -1, ok))
    /\ Fail(cur.req, "spawn", "run")
    /\ UNCHANGED <<hostVars, chanVars, cur, recvLog, exit_status, ackval,
                   childVars, clipVars, dbusVars, udevVars>>
    /\ UNCHANGED fnVars

\* do_run_request, lines 108-121: agent.send_ack(0)?, then thread::spawn of
\* the waiter.
\* Faulty variant of RunAck: the waiter is started and the handler returns
\* without the ack being written.
RunAckOmitted ==
    /\ Running
    /\ pc = "run_ack"
    /\ Return
    /\ handled' = handled \cup {cur.req}
    /\ waiters' = waiters \cup {cur.req}
    /\ UNCHANGED <<hostVars, chanVars, cur, recvLog, exit_status, ackval, hostOut, failure,
                   children, childCode, clipVars, dbusVars, udevVars>>
    /\ UNCHANGED fnVars

\* Faulty variant of RunAck: the handler waits for the application to
\* terminate before it acks and returns.
RunAckAfterWait ==
    /\ Running
    /\ pc = "run_ack"
    /\ children[cur.req] # "running"
    /\ \E ok \in BOOLEAN :
        /\ HostWrite(AckOut(cur.req, 0, ok))
        /\ IF ok
           THEN /\ Return
                /\ handled' = handled \cup {cur.req}
                /\ waiters' = waiters \cup {cur.req}
                /\ UNCHANGED failure
           ELSE /\ Fail(cur.req, "send", "run")
                /\ UNCHANGED waiters
    /\ UNCHANGED <<hostVars, chanVars, cur, recvLog, exit_status, ackval, children, childCode,
                   clipVars, dbusVars, udevVars>>
    /\ UNCHANGED fnVars

RunAck ==
    /\ Running
    /\ pc = "run_ack"
    /\ \E ok \in BOOLEAN :
        /\ HostWrite(AckOut(cur.req, 0, ok))
        /\ IF ok
           THEN /\ Return
                /\ handled' = handled \cup {cur.req}
                /\ waiters' = waiters \cup {cur.req}
                /\ UNCHANGED failure
           ELSE /\ Fail(cur.req, "send", "run")
                /\ UNCHANGED waiters
    /\ UNCHANGED <<hostVars, chanVars, cur, recvLog, exit_status, ackval, children, childCode,
                   clipVars, dbusVars, udevVars>>
    /\ UNCHANGED fnVars

(***************************************************************************)
(* The spawned application and its waiter thread, main.rs 110-119.         *)
(***************************************************************************)
\* The application terminates; child.wait() will yield its status, or Err.
ChildExit(r) ==
    /\ Running
    /\ children[r] = "running"
    /\ children' = [children EXCEPT ![r] = "exited"]
    /\ \/ \E st \in ExitStatuses : childCode' = [childCode EXCEPT ![r] = ExitCodeOf(st)]
       \/ childCode' = [childCode EXCEPT ![r] = -1]
    /\ UNCHANGED <<procVars, hostVars, chanVars, mainVars, waiters, clipVars,
                   dbusVars, udevVars>>
    /\ UNCHANGED fnVars

\* Faulty variant of WaiterSend: the waiter sends its AppExit twice.
WaiterSendTwice(r) ==
    /\ Running
    /\ r \in waiters
    /\ children[r] = "exited"
    /\ chan' = chan \o <<AppExitMsg(r, childCode[r]), AppExitMsg(r, childCode[r])>>
    /\ sentLog' = sentLog \o <<AppExitMsg(r, childCode[r]), AppExitMsg(r, childCode[r])>>
    /\ children' = [children EXCEPT ![r] = "reaped"]
    /\ waiters' = waiters \ {r}
    /\ UNCHANGED <<procVars, hostVars, mainVars, childCode, clipVars,
                   dbusVars, udevVars>>
    /\ UNCHANGED fnVars

\* Faulty variant of WaiterSend: the waiter writes the exit code to the host
\* itself instead of sending AppExit to the main thread.
WaiterWritesHost(r) ==
    /\ Running
    /\ r \in waiters
    /\ children[r] = "exited"
    /\ hostOut' = Append(hostOut,
           [BaseOut EXCEPT !.kind = "exit_code", !.code = childCode[r], !.req = r,
                           !.cause = deqCount, !.by = "waiter"])
    /\ children' = [children EXCEPT ![r] = "reaped"]
    /\ waiters' = waiters \ {r}
    /\ UNCHANGED <<procVars, hostVars, chanVars, pc, cur, recvLog, active, exit_status, ackval,
                   failure, handled, childCode, clipVars, dbusVars, udevVars>>
    /\ UNCHANGED fnVars

\* child.wait() returns in the waiter, which sends AppExit(exit_code).
WaiterSend(r) ==
    /\ Running
    /\ r \in waiters
    /\ children[r] = "exited"
    /\ Send(AppExitMsg(r, childCode[r]))
    /\ children' = [children EXCEPT ![r] = "reaped"]
    /\ waiters' = waiters \ {r}
    /\ UNCHANGED <<procVars, hostVars, mainVars, childCode, clipVars,
                   dbusVars, udevVars>>
    /\ UNCHANGED fnVars

(***************************************************************************)
(* Clipboard: the user of the guest, the ClipboardListener thread of       *)
(* flatkvm_qemu::clipboard and the translator thread, main.rs 297-313.     *)
(***************************************************************************)
\* The user selects text inside the guest.
LocalCopy ==
    /\ Running
    /\ inputs < MaxInputs
    /\ \E d \in LocalData :
        /\ clipboard' = [data |-> d, origin |-> "local", by |-> "user"]
        /\ cbChanges' = Append(cbChanges, clipboard')
    /\ inputs' = inputs + 1
    /\ UNCHANGED <<procVars, hostLog, chanVars, mainVars, childVars,
                   cb_used_flag, clipboard_chan, dbusVars, udevVars>>
    /\ UNCHANGED fnVars

\* The listener sees the next change of the selection: with the flag raised
\* it takes the change for the agent's own store, lowers the flag and emits
\* nothing; otherwise it emits ClipboardMessage::ClipboardEvent.
ClipboardListenerObserve ==
    /\ Running
    /\ cbChanges # <<>>
    /\ cbChanges' = Tail(cbChanges)
    /\ IF cb_used_flag
       THEN /\ cb_used_flag' = FALSE
            /\ UNCHANGED clipboard_chan
       ELSE /\ clipboard_chan' = Append(clipboard_chan, Head(cbChanges))
            /\ UNCHANGED cb_used_flag
    /\ UNCHANGED <<procVars, hostVars, chanVars, mainVars, childVars,
                   clipboard, dbusVars, udevVars>>
    /\ UNCHANGED fnVars

\* for msg in &clipboard_receiver: ClipboardEvent(ce) => LocalClipboardEvent(ce)
ClipboardTranslate ==
    /\ Running
    /\ clipboard_chan # <<>>
    /\ clipboard_chan' = Tail(clipboard_chan)
    /\ Send(LocalClipboardEventMsg(Head(clipboard_chan).data, Head(clipboard_chan).origin))
    /\ UNCHANGED <<procVars, hostVars, mainVars, childVars, cb_used_flag,
                   clipboard, cbChanges, dbusVars, udevVars>>
    /\ UNCHANGED fnVars

(***************************************************************************)
(* Notification thread: handle_dbus_notifications, dbus_listener.rs.       *)
(***************************************************************************)
\* Lines 126-146: DBUS_SENDER = Some(..), then the connection is set up with
\* unwrap(): a failure panics the thread, which drops dbus_nc_receiver.
DbusStart ==
    /\ Running
    /\ dbus_pc = "start"
    /\ DBUS_SENDER' = TRUE
    /\ \E connected \in BOOLEAN : dbus_pc' = IF connected THEN "iter" ELSE "dead"
    /\ UNCHANGED <<procVars, hostVars, chanVars, mainVars, childVars, clipVars,
                   DBUS_NOTIFICATION_ID, dbus_call, dbus_nc, signals,
                   notifyLog, udevVars>>
    /\ UNCHANGED fnVars

\* Faulty variant of FetchAdd: the counter is read but not advanced.
FetchNoAdd(counter) == [old |-> counter, new |-> counter]

\* DBUS_NOTIFICATION_ID.fetch_add(1, SeqCst): returns the old value.
FetchAdd(counter) == [old |-> counter, new |-> counter + 1]

\* c.iter(500).next() dispatches a Notify method call: notify runs up to
\* line 92.
NotifyFetch ==
    /\ Running
    /\ dbus_pc = "iter"
    /\ inputs < MaxInputs
    /\ \E a \in NotifyArgs :
        dbus_call' = [nid |-> FetchAdd(DBUS_NOTIFICATION_ID).old, args |-> a]
    /\ DBUS_NOTIFICATION_ID' = FetchAdd(DBUS_NOTIFICATION_ID).new
    /\ inputs' = inputs + 1
    /\ dbus_pc' = "notify_send"
    /\ UNCHANGED <<procVars, hostLog, chanVars, mainVars, childVars, clipVars,
                   DBUS_SENDER, dbus_nc, signals, notifyLog, udevVars>>
    /\ UNCHANGED fnVars

\* notify, lines 95-109: send DbusNotification if DBUS_SENDER is Some, and
\* return Ok(nid as u32).
NotifySend ==
    /\ Running
    /\ dbus_pc = "notify_send"
    /\ IF DBUS_SENDER
       THEN Send(DbusNotificationMsg(dbus_call.nid, dbus_call.args))
       ELSE UNCHANGED chanVars
    /\ notifyLog' = Append(notifyLog, [id |-> AsU32(dbus_call.nid), args |-> dbus_call.args])
    /\ dbus_call' = NoCall
    /\ dbus_pc' = "drain"
    /\ UNCHANGED <<procVars, hostVars, mainVars, childVars, clipVars,
                   DBUS_SENDER, DBUS_NOTIFICATION_ID, dbus_nc, signals, udevVars>>
    /\ UNCHANGED fnVars

\* Lines 149-157: receiver.recv_timeout(Duration::new(0, 0)); when a close is
\* waiting, one NotificationClosed signal is emitted with c.send(..).expect(..),
\* whose failure panics the thread.  The loop then starts over.
\* Faulty variant of Drain: the newest close waiting is emitted first.
DrainNewest ==
    IF dbus_nc # <<>>
    THEN /\ dbus_nc' = SubSeq(dbus_nc, 1, Len(dbus_nc) - 1)
         /\ \E emitted \in BOOLEAN :
             IF emitted
             THEN signals' = Append(signals, dbus_nc[Len(dbus_nc)]) /\ dbus_pc' = "iter"
             ELSE dbus_pc' = "dead" /\ UNCHANGED signals
    ELSE dbus_pc' = "iter" /\ UNCHANGED <<signals, dbus_nc>>

Drain ==
    IF dbus_nc # <<>>
    THEN /\ dbus_nc' = Tail(dbus_nc)
         /\ \E emitted \in BOOLEAN :
             IF emitted
             THEN signals' = Append(signals, Head(dbus_nc)) /\ dbus_pc' = "iter"
             ELSE dbus_pc' = "dead" /\ UNCHANGED signals
    ELSE dbus_pc' = "iter" /\ UNCHANGED <<signals, dbus_nc>>

\* An iteration of the loop in which c.iter(500).next() dispatches no Notify
\* call (timeout or another message), then the drain.
DbusIdle ==
    /\ Running
    /\ dbus_pc = "iter"
    /\ Drain
    /\ UNCHANGED <<procVars, hostVars, chanVars, mainVars, childVars, clipVars,
                   DBUS_SENDER, DBUS_NOTIFICATION_ID, dbus_call,
                   notifyLog, udevVars>>
    /\ UNCHANGED fnVars

\* The drain that ends an iteration in which notify ran.
DbusDrain ==
    /\ Running
    /\ dbus_pc = "drain"
    /\ Drain
    /\ UNCHANGED <<procVars, hostVars, chanVars, mainVars, childVars, clipVars,
                   DBUS_SENDER, DBUS_NOTIFICATION_ID, dbus_call, notifyLog,
                   udevVars>>
    /\ UNCHANGED fnVars

(***************************************************************************)
(* udev thread: main.rs 317-322 around udevmon::monitor.                   *)
(***************************************************************************)
\* Faulty variant of UdevPollError: the thread calls monitor once and ends
\* with its Err.
UdevPollErrorEnds ==
    /\ Running
    /\ udev_pc = "poll"
    /\ inputs < MaxInputs
    /\ inputs' = inputs + 1
    /\ udev_pc' = "dead"
    /\ udevLog' = Append(udevLog, "poll error")
    /\ UNCHANGED <<procVars, hostLog, chanVars, mainVars, childVars, clipVars,
                   dbusVars, monitorCalls, xrandrRuns>>
    /\ UNCHANGED fnVars

\* ppoll returns a negative result: monitor returns Err (lines 78-80), main's
\* loop logs it and calls monitor again, which sets up a new socket and polls.
UdevPollError ==
    /\ Running
    /\ udev_pc = "poll"
    /\ inputs < MaxInputs
    /\ inputs' = inputs + 1
    /\ monitorCalls' = monitorCalls + 1
    /\ udevLog' = Append(udevLog, "poll error")
    /\ UNCHANGED <<procVars, hostLog, chanVars, mainVars, childVars, clipVars,
                   dbusVars, udev_pc, xrandrRuns>>
    /\ UNCHANGED fnVars

\* Lines 82-110: an event is read; when its sysname is card0, xrandr is
\* invoked with the number of the monitor call recorded, and status().unwrap()
\* panics the thread when xrandr cannot be executed.
\* One invocation of `xrandr --output Virtual-1 --auto`: the event it answers,
\* the call of monitor that made it, and whether the command could be executed.
XrandrRun(sysname, executed) ==
    [sysname |-> sysname, call |-> monitorCalls, executed |-> executed]

\* Faulty variant of UdevEvent: xrandr is invoked for every event.
UdevEventAnyDevice ==
    /\ Running
    /\ udev_pc = "poll"
    /\ inputs < MaxInputs
    /\ inputs' = inputs + 1
    /\ \E sysname \in SysNames, executed \in BOOLEAN :
        /\ udevLog' = Append(udevLog, sysname)
        /\ xrandrRuns' = Append(xrandrRuns, XrandrRun(sysname, executed))
        /\ udev_pc' = IF executed THEN "poll" ELSE "dead"
    /\ UNCHANGED <<procVars, hostLog, chanVars, mainVars, childVars, clipVars,
                   dbusVars, monitorCalls>>
    /\ UNCHANGED fnVars

UdevEvent ==
    /\ Running
    /\ udev_pc = "poll"
    /\ inputs < MaxInputs
    /\ inputs' = inputs + 1
    /\ \E sysname \in SysNames, executed \in BOOLEAN :
        /\ udevLog' = Append(udevLog, sysname)
        /\ IF sysname = "card0"
           THEN /\ xrandrRuns' = Append(xrandrRuns, XrandrRun(sysname, executed))
                /\ udev_pc' = IF executed THEN "poll" ELSE "dead"
           ELSE UNCHANGED <<udev_pc, xrandrRuns>>
    /\ UNCHANGED <<procVars, hostLog, chanVars, mainVars, childVars, clipVars,
                   dbusVars, monitorCalls>>
    /\ UNCHANGED fnVars

Next ==
    \/ HostMountRequest
    \/ HostRunRequest
    \/ HostLayoutRequest
    \/ HostClipboardEvent
    \/ HostNotificationClosed
    \/ HostProtocolError
    \/ Recv
    \/ LocalClipboardHandler
    \/ RemoteClipboardFlag
    \/ RemoteClipboardStore
    \/ NotificationHandler
    \/ NotificationClosedHandler
    \/ AppExitHandler
    \/ MountDir
    \/ MountExec
    \/ MountAck
    \/ LayoutExec
    \/ LayoutAck
    \/ RunSpawn
    \/ RunNack
    \/ RunAck
    \/ \E r \in Reqs : ChildExit(r)
    \/ \E r \in Reqs : WaiterSend(r)
    \/ LocalCopy
    \/ ClipboardListenerObserve
    \/ ClipboardTranslate
    \/ DbusStart
    \/ NotifyFetch
    \/ NotifySend
    \/ DbusIdle
    \/ DbusDrain
    \/ UdevPollError
    \/ UdevEvent

Spec == Init /\ [][Next]_vars

\* The threads are scheduled by the operating system: the main thread and
\* the waiter of a child that has terminated get to run.
FairSpec ==
    /\ Spec
    /\ WF_vars(RunAck)
    /\ \A r \in Reqs : WF_vars(WaiterSend(r))

\* The steps of the main thread, and those the notification thread takes on
\* its own (c.iter(500) returns after 500 ms at most, so the loop of
\* dbus_listener.rs 147-158 always comes round to its drain).
MainThread ==
    \/ Recv
    \/ LocalClipboardHandler
    \/ RemoteClipboardFlag
    \/ RemoteClipboardStore
    \/ NotificationHandler
    \/ NotificationClosedHandler
    \/ AppExitHandler
    \/ MountDir
    \/ MountExec
    \/ MountAck
    \/ LayoutExec
    \/ LayoutAck
    \/ RunSpawn
    \/ RunNack
    \/ RunAck

DbusThread == DbusStart \/ NotifySend \/ DbusIdle \/ DbusDrain

\* Both threads are scheduled for as long as they can take a step.
FairThreads ==
    /\ Spec
    /\ WF_vars(MainThread)
    /\ WF_vars(DbusThread)

(***************************************************************************)
(* do_mount_request, main.rs 43-70, on its own: the target of the mount.   *)
(***************************************************************************)
\* QemuSharedDirType.
SharedDirTypes ==
    {"FlatpakSystemDir", "FlatpakUserDir", "FlatpakAppDir", "FlatpakPublicDir",
     "FlatpakDownloadDir"}

AppNames == {"org.mozilla.Firefox", "org.gnome.gedit"}
Tags == {"flatkvm0", "flatkvm1"}

\* env::var("HOME"): Ok(home) or Err.
HomeEnv ==
    { [set |-> FALSE, value |-> ""],
      [set |-> TRUE, value |-> "/home/user"],
      [set |-> TRUE, value |-> "/root"] }

\* Lines 43-46.
HomeDir(env) == IF env.set THEN env.value ELSE "/home/flatkvm"

\* Faulty variant of MountTarget: the per-app kind leaves the app name out.
MountTargetShared(dir_type, app_name, homedir) ==
    CASE dir_type = "FlatpakSystemDir" -> "/var/lib/flatpak"
      [] dir_type = "FlatpakUserDir" -> homedir \o "/.local/share/flatpak"
      [] dir_type = "FlatpakAppDir" -> homedir \o "/.var/app"
      [] dir_type = "FlatpakPublicDir" -> homedir \o "/Public"
      [] dir_type = "FlatpakDownloadDir" -> homedir \o "/Downloads"

\* Lines 48-70: `let target = match dir.dir_type { .. }`.
MountTarget(dir_type, app_name, homedir) ==
    CASE dir_type = "FlatpakSystemDir" -> "/var/lib/flatpak"
      [] dir_type = "FlatpakUserDir" -> homedir \o "/.local/share/flatpak"
      [] dir_type = "FlatpakAppDir" -> homedir \o "/.var/app/" \o app_name
      [] dir_type = "FlatpakPublicDir" -> homedir \o "/Public"
      [] dir_type = "FlatpakDownloadDir" -> homedir \o "/Downloads"

\* A QemuSharedDir and the environment it is resolved in.
MountCalls ==
    [fn : {"do_mount_request"}, dir_type : SharedDirTypes, app_name : AppNames,
     tag : Tags, home : HomeEnv]

TargetInit ==
    /\ AgentInit
    /\ fn_args \in MountCalls
    /\ fn_result = <<>>

\* The target is resolved for the request in fn_args.
ResolveTarget ==
    /\ fn_args.fn = "do_mount_request"
    /\ Len(fn_result) < MaxResolves
    /\ fn_result' = Append(fn_result,
            MountTarget(fn_args.dir_type, fn_args.app_name, HomeDir(fn_args.home)))
    /\ UNCHANGED <<fn_args, agentVars>>

TargetNext == ResolveTarget

TargetSpec == TargetInit /\ [][TargetNext]_vars

(***************************************************************************)
(* spawn_app, main.rs 143-191, on its own: the arguments of flatpak.       *)
(***************************************************************************)
Flag(on, args) == IF on THEN args ELSE <<>>

\* Faulty variant of SpawnArgs: public_share and download are mixed up.
SpawnArgsMixedUp(rr) ==
    <<"run">>
    \o Flag(rr.user, <<"--user">>)
    \o Flag(rr.dbus_session, <<"--socket=session-bus">>)
    \o Flag(rr.pulse_client, <<"--nosocket=pulseaudio", "--env=PULSE_SERVER=10.0.2.2">>)
    \o <<"--nofilesystem=home">>
    \o Flag(rr.download, <<"--filesystem=~/Public">>)
    \o Flag(rr.public_share, <<"--filesystem=~/Downloads">>)
    \o <<"--persist=.mozilla", rr.app>>

\* Lines 144-177: the args vector handed to Command::new("flatpak").
SpawnArgs(rr) ==
    <<"run">>
    \o Flag(rr.user, <<"--user">>)
    \o Flag(rr.dbus_session, <<"--socket=session-bus">>)
    \o Flag(rr.pulse_client, <<"--nosocket=pulseaudio", "--env=PULSE_SERVER=10.0.2.2">>)
    \o <<"--nofilesystem=home">>
    \o Flag(rr.public_share, <<"--filesystem=~/Public">>)
    \o Flag(rr.download, <<"--filesystem=~/Downloads">>)
    \o <<"--persist=.mozilla", rr.app>>

\* AgentRunRequest.
RunRequests ==
    [app : AppNames, user : BOOLEAN, dbus_session : BOOLEAN, pulse_client : BOOLEAN,
     public_share : BOOLEAN, download : BOOLEAN]

SpawnInit ==
    /\ AgentInit
    /\ fn_args \in [fn : {"spawn_app"}, rr : RunRequests]
    /\ fn_result = <<>>

\* spawn_app builds the arguments for the request in fn_args.
SpawnApp ==
    /\ fn_args.fn = "spawn_app"
    /\ fn_result = <<>>
    /\ fn_result' = <<SpawnArgs(fn_args.rr)>>
    /\ UNCHANGED <<fn_args, agentVars>>

SpawnNext == SpawnApp

SpawnSpec == SpawnInit /\ [][SpawnNext]_vars

(***************************************************************************)
(* Properties.                                                             *)
(***************************************************************************)
RequestTypes == {"MountRequest", "RunRequest", "LayoutRequest"}

\* Failures of the action a handler carries out, as opposed to failures to
\* write to the host.
ActionFailures == {"mkdir", "args", "exec", "spawn"}

\* Positions in hostOut of the acks written (or attempted) for request r.
AcksOf(r) == {i \in DOMAIN hostOut : hostOut[i].kind = "ack" /\ hostOut[i].req = r}

\* Positions in sentLog of the AppExit events of the child of run request r.
AppExitsOf(r) == {i \in DOMAIN sentLog : sentLog[i].type = "AppExit" /\ sentLog[i].req = r}

\* C1: every mount, run or layout request whose handler has returned has had
\* exactly one ack written to the host, whether the action succeeded or
\* failed.
C1_ExactlyOneAck == \A r \in handled : Cardinality(AcksOf(r)) = 1

\* C2: a run request whose spawn succeeded is acked with 0 and its child is
\* answered by at most one AppExit event, enqueued exactly when the waiter has
\* seen the child terminate and carrying the code of the child; a run request
\* whose spawn failed is acked with -1 and never has an AppExit event.
C2_RunAckAndAppExit ==
    \A r \in Reqs :
        /\ Cardinality(AppExitsOf(r)) <= 1
        /\ (children[r] = "reaped") = (AppExitsOf(r) # {})
        /\ \A i \in AppExitsOf(r) :
            /\ sentLog[i].code = childCode[r]
            /\ \E j \in AcksOf(r) : hostOut[j].code = 0 /\ hostOut[j].ok
        /\ r \in waiters => \E j \in AcksOf(r) : hostOut[j].code = 0 /\ hostOut[j].ok
        /\ (r \in handled /\ children[r] # "none") =>
            /\ Cardinality(AcksOf(r)) = 1
            /\ \A j \in AcksOf(r) : hostOut[j].code = 0
            /\ (\E j \in AcksOf(r) : ~hostOut[j].ok) =>
                    (procState = "exited" /\ r \notin waiters)
        /\ failure[r] = "spawn" =>
            /\ children[r] = "none"
            /\ AppExitsOf(r) = {}
            /\ r \notin waiters
            /\ \A j \in AcksOf(r) : hostOut[j].code = -1
            /\ r \in handled => Cardinality(AcksOf(r)) = 1

\* C2, progress: once the child of a run request has terminated, its AppExit
\* event gets enqueued, unless the process exits first.
C2_AppExitEnqueued ==
    \A r \in Reqs :
        (children[r] = "exited") ~> (AppExitsOf(r) # {} \/ procState = "exited")

\* C2: the two together.
C2_Run == []C2_RunAckAndAppExit /\ C2_AppExitEnqueued

\* C2 witness: a spawned application was acked with 0, terminated, and its
\* AppExit event is on the channel; another run request failed to spawn and
\* was acked with -1.
C2_Witness ==
    /\ \E r \in Reqs :
        /\ children[r] = "reaped"
        /\ Cardinality(AppExitsOf(r)) = 1
        /\ \E j \in AcksOf(r) : hostOut[j].code = 0
    /\ \E r \in Reqs :
        /\ failure[r] = "spawn"
        /\ r \in handled
        /\ \E j \in AcksOf(r) : hostOut[j].code = -1

NotificationEvents == {i \in DOMAIN sentLog : sentLog[i].type = "DbusNotification"}

C6_NoEcho ==
    \A i \in DOMAIN hostOut :
        (hostOut[i].kind = "clipboard" /\ hostOut[i].ok) => hostOut[i].origin # "remote"

\* C7: every write on agent_writer and every store into the clipboard by the
\* program is made by the main thread, inside the one handler executing.
C7_SingleWriter ==
    /\ \A i \in DOMAIN hostOut : hostOut[i].by = "main" /\ hostOut[i].cause \in 1..deqCount
    /\ clipboard.by \in {"", "user", "main"}
    /\ Cardinality(active) <= 1
    /\ active \subseteq {deqCount}
    /\ (pc = "recv") = (active = {})

\* C7 witness: the main thread has written an ack and an exit code to the
\* host and stored a remote value into the clipboard.
C7_Witness ==
    /\ \E i, j \in DOMAIN hostOut : hostOut[i].kind = "ack" /\ hostOut[j].kind = "exit_code"
    /\ clipboard.by = "main"

\* Positions in recvLog of the mount, run and layout requests.
RequestsReceived == {k \in DOMAIN recvLog : recvLog[k].type \in RequestTypes}

\* C8: the writes to the host follow the order in which their Messages were
\* received; the only write made while a request is handled is its ack; and
\* a write caused by a later Message comes after the ack of the request.
C8_AckBeforeLater ==
    /\ \A i, j \in DOMAIN hostOut : i < j => hostOut[i].cause <= hostOut[j].cause
    /\ \A k \in RequestsReceived :
        /\ \A i \in DOMAIN hostOut :
            hostOut[i].cause = k => hostOut[i].kind = "ack" /\ hostOut[i].req = recvLog[k].req
        /\ Cardinality({i \in DOMAIN hostOut : hostOut[i].cause = k}) <= 1
        /\ \A j \in DOMAIN hostOut :
            hostOut[j].cause > k =>
                \E i \in 1..(j - 1) :
                    /\ hostOut[i].kind = "ack"
                    /\ hostOut[i].req = recvLog[k].req
                    /\ hostOut[i].cause = k
                    /\ hostOut[i].ok

\* C8 witness: an ack is followed by a write caused by a later Message.
C8_Witness ==
    \E i, j \in DOMAIN hostOut :
        /\ i < j
        /\ hostOut[i].kind = "ack"
        /\ hostOut[j].cause > hostOut[i].cause

\* The producer thread of a Message; each waiter sends a single Message.
Producer(m) ==
    CASE m.type \in {"MountRequest", "RunRequest", "LayoutRequest",
                     "RemoteClipboardEvent", "DbusNotificationClosed"} -> "host"
      [] m.type = "LocalClipboardEvent" -> "clipboard"
      [] m.type = "DbusNotification" -> "dbus"
      [] m.type = "AppExit" -> "waiter"

FromProducer(log, p) == SelectSeq(log, LAMBDA m : Producer(m) = p)

IsPrefix(a, b) == Len(a) <= Len(b) /\ SubSeq(b, 1, Len(a)) = a

\* C9: the Messages of a producer are received in the order it sent them, the
\* Messages of the host listener in the order the host sent them, and the
\* acks are written in the order of their requests.
C9_PerProducerFifo ==
    /\ \A p \in {"host", "clipboard", "dbus"} :
        IsPrefix(FromProducer(recvLog, p), FromProducer(sentLog, p))
    /\ \A i, j \in DOMAIN recvLog :
        (i < j /\ Producer(recvLog[i]) = "host" /\ Producer(recvLog[j]) = "host")
            => recvLog[i].req < recvLog[j].req
    /\ \A i, j \in DOMAIN hostOut :
        (i < j /\ hostOut[i].kind = "ack" /\ hostOut[j].kind = "ack")
            => hostOut[i].req < hostOut[j].req

\* C9 witness: two requests of the host were acked, one after the other.
C9_Witness ==
    \E i, j \in DOMAIN hostOut :
        /\ i < j
        /\ hostOut[i].kind = "ack" /\ hostOut[j].kind = "ack"
        /\ hostOut[i].req = 1 /\ hostOut[j].req = 2

\* Positions in sentLog of the Messages the host listener sent.
HostEvents == {k \in DOMAIN sentLog : Producer(sentLog[k]) = "host"}

\* C10: a message of the host that no arm matches, or a failed read, ends the
\* process with a non-zero status and puts no event on the channel.
C10_ProtocolErrorFatal ==
    \A i \in DOMAIN hostLog :
        hostLog[i] = "unexpected" =>
            /\ procState = "exited"
            /\ exitStatus # 0
            /\ i = Len(hostLog)
            /\ \A k \in HostEvents : sentLog[k].req # i
            /\ Cardinality(HostEvents) = Len(hostLog) - 1

\* C10 witness: after a request was read and enqueued, an unexpected message
\* was read and the process has exited.
C10_Witness ==
    /\ Len(hostLog) = 2
    /\ hostLog[2] = "unexpected"
    /\ Cardinality(HostEvents) = 1
    /\ procState = "exited"

(***************************************************************************)
(* C11: A failed write to the host (ack, clipboard event, notification,    *)
(* exit code) and a failed store of a remote value into the clipboard are  *)
(* fatal: the failed operation is the last thing the main thread did, no   *)
(* further Message is dequeued, and the process has ended with a non-zero  *)
(* status.                                                                 *)
(***************************************************************************)
C11_SendAndStoreFailuresFatal ==
    /\ \A i \in DOMAIN hostOut :
        ~hostOut[i].ok =>
            /\ procState = "exited"
            /\ exitStatus # 0
            /\ i = Len(hostOut)
            /\ hostOut[i].cause = deqCount
            /\ deqCount \in active
    /\ \A r \in Reqs :
        failure[r] = "store" =>
            /\ procState = "exited"
            /\ exitStatus # 0
            /\ recvLog[deqCount].type = "RemoteClipboardEvent"
            /\ recvLog[deqCount].req = r
            /\ deqCount \in active
            /\ \A i \in DOMAIN hostOut : hostOut[i].cause < deqCount

\* A notification could not be delivered while another Message was waiting
\* in the channel: the process is gone and the Message is never dequeued.
C11_Witness ==
    /\ hostOut # <<>>
    /\ hostOut[Len(hostOut)].kind = "notification"
    /\ ~hostOut[Len(hostOut)].ok
    /\ chan # <<>>
    /\ procState = "exited"

(***************************************************************************)
(* C12: When the process has exited out of the handler of a mount, run or  *)
(* layout request, an ack with a negative value for that request has been  *)
(* attempted (written or failed) on the host channel.                      *)
(***************************************************************************)
RequestExits == {"mount", "run", "layout"}

C12_NegativeAckBeforeExit ==
    (procState = "exited" /\ exitCause \in RequestExits) =>
        \E i \in AcksOf(cur.req) : hostOut[i].code < 0

(***************************************************************************)
(* C13: The NotificationClosed signals emitted are closes the host sent,   *)
(* with the same id and reason, each at most once and in the order the     *)
(* host sent them; and every close read from the host is eventually        *)
(* emitted, notify calls arriving or not, unless the process exits or the  *)
(* notification thread ends first.                                         *)
(***************************************************************************)
HostCloses == SelectSeq(sentLog, LAMBDA m : m.type = "DbusNotificationClosed")

C13_SignalsInOrder ==
    /\ \A k \in DOMAIN signals :
        \E j \in DOMAIN HostCloses :
            /\ HostCloses[j].req = signals[k].req
            /\ HostCloses[j].id = signals[k].id
            /\ HostCloses[j].reason = signals[k].reason
    /\ \A k1, k2 \in DOMAIN signals : k1 < k2 => signals[k1].req < signals[k2].req

\* Every close read from the host so far has been emitted, or the process or
\* the notification thread has ended.
ClosesSettled ==
    \/ \A r \in 1..hostSeq :
        hostLog[r] = "DbusNotificationClosed" =>
            \E k \in DOMAIN signals : signals[k].req = r
    \/ procState = "exited"
    \/ dbus_pc = "dead"

C13_CloseEmitted == []<>ClosesSettled

ExitCodeForwarded ==
    /\ pc = "exit_send"
    /\ Len(hostOut') = Len(hostOut) + 1
    /\ hostOut'[Len(hostOut')].kind = "exit_code"
    /\ hostOut'[Len(hostOut')].ok

C14_NeverReturns == procState = "exited" => exitStatus # 0

C14_LoopSurvivesAppExit ==
    /\ []C14_NeverReturns
    /\ [][ExitCodeForwarded => (pc' = "recv" /\ procState' = "running")]_vars

\* After the exit code of an application was forwarded, a later request was
\* serviced and acked.
C14_Witness ==
    \E i, j \in DOMAIN hostOut :
        /\ i < j
        /\ hostOut[i].kind = "exit_code" /\ hostOut[i].ok
        /\ hostOut[j].kind = "ack" /\ hostOut[j].ok
        /\ hostOut[j].req # hostOut[i].req

C16_LauncherArgs ==
    fn_result # <<>> =>
        LET args == fn_result[1]
            rr == fn_args.rr
            Has(x) == \E i \in 1..(Len(args) - 1) : args[i] = x
        IN  /\ Has("--nofilesystem=home")
            /\ ~Has("--filesystem=home")
            /\ Has("--persist=.mozilla")
            /\ Has("--socket=session-bus") <=> rr.dbus_session
            /\ Has("--nosocket=pulseaudio") <=> rr.pulse_client
            /\ Has("--env=PULSE_SERVER=10.0.2.2") <=> rr.pulse_client
            /\ Has("--filesystem=~/Public") <=> rr.public_share
            /\ Has("--filesystem=~/Downloads") <=> rr.download
            /\ args[Len(args)] = rr.app

\* The arguments were built for a request with the public share but without
\* downloads, session bus and audio.
C16_Witness ==
    /\ fn_result # <<>>
    /\ fn_args.rr.public_share
    /\ ~fn_args.rr.download
    /\ ~fn_args.rr.dbus_session
    /\ ~fn_args.rr.pulse_client
    /\ Len(fn_result[1]) = 5

(***************************************************************************)
(* C17: The ack written after the mount or layout command has run carries  *)
(* the exit code of the command, and is -1 exactly when the command ended  *)
(* without an exit code.                                                   *)
(***************************************************************************)
AckAfterCommand ==
    /\ pc \in {"mount_ack", "layout_ack"}
    /\ Len(hostOut') = Len(hostOut) + 1

C17_AckIsExitCode ==
    [][AckAfterCommand =>
        LET ack == hostOut'[Len(hostOut')]
        IN  /\ ack.kind = "ack"
            /\ ack.req = cur.req
            /\ exit_status.hasCode => ack.code = exit_status.code
            /\ ack.code = -1 <=> ~exit_status.hasCode]_vars

\* One command ended with exit code 32 and one was killed by a signal: the
\* acks written carry 32 and -1.
C17_Witness ==
    /\ procState = "running"
    /\ \E i, j \in DOMAIN hostOut :
        /\ hostOut[i].kind = "ack" /\ hostOut[i].code = 32
        /\ hostOut[j].kind = "ack" /\ hostOut[j].code = -1
        /\ ~exit_status.hasCode

(***************************************************************************)
(* C18: A running application never holds up the main thread: as long as   *)
(* the process runs, the main thread can take its next step whenever it is *)
(* inside a handler or a Message is waiting, whatever the state of the     *)
(* children; and the termination of a child is collected by its waiter     *)
(* thread, in a step that leaves the main thread where it is.              *)
(***************************************************************************)
C18_MainNeverWaits ==
    (procState = "running" /\ (pc # "recv" \/ chan # <<>>)) => ENABLED MainThread

ChildReaped(r) == children[r] = "exited" /\ children'[r] = "reaped"

C18_RunDoesNotBlock ==
    /\ []C18_MainNeverWaits
    /\ [][\A r \in Reqs : ChildReaped(r) => (r \in waiters /\ UNCHANGED mainVars)]_vars

\* An application is still running and a request the host sent after its
\* run request has been acked.
C18_Witness ==
    \E r \in Reqs :
        /\ children[r] = "running"
        /\ \E i \in DOMAIN hostOut :
            hostOut[i].kind = "ack" /\ hostOut[i].ok /\ hostOut[i].req > r

(***************************************************************************)
(* C19: A poll error of the device monitor ends neither the process nor    *)
(* the udev thread and leaves the main thread alone: the thread is back    *)
(* polling, and a card0 event read by any call of monitor, the first or a  *)
(* later one, makes it invoke xrandr.                                      *)
(***************************************************************************)
PollErrors == Cardinality({i \in DOMAIN udevLog : udevLog[i] = "poll error"})

PollFailed == udevLog' = Append(udevLog, "poll error")

Card0Read == Len(udevLog') = Len(udevLog) + 1 /\ udevLog'[Len(udevLog')] = "card0"

C19_PollErrorNotFatal ==
    /\ [][PollFailed => /\ procState' = "running"
                        /\ udev_pc' = "poll"
                        /\ monitorCalls' = monitorCalls + 1
                        /\ UNCHANGED <<mainVars, chanVars>>]_vars
    /\ [][Card0Read => /\ Len(xrandrRuns') = Len(xrandrRuns) + 1
                       /\ xrandrRuns'[Len(xrandrRuns')].call = monitorCalls]_vars
    /\ [](procState = "running" /\ PollErrors > 0 /\ udev_pc = "poll" /\ inputs < MaxInputs
             => ENABLED UdevEvent)

\* After a poll error, the second call of monitor read a card0 event and ran
\* xrandr.
C19_Witness ==
    /\ procState = "running"
    /\ \E i \in DOMAIN xrandrRuns :
        /\ xrandrRuns[i].call = 2
        /\ xrandrRuns[i].sysname = "card0"
        /\ xrandrRuns[i].executed

(***************************************************************************)
(* C20: The device monitor invokes xrandr once for each card0 event it     *)
(* reads, in order, and for nothing else; and a step of the monitor sends  *)
(* nothing on the common channel, writes nothing to the host, and leaves   *)
(* the clipboard and the notification id counter as they are.              *)
(***************************************************************************)
Card0Events == SelectSeq(udevLog, LAMBDA n : n = "card0")

C20_XrandrForCard0 ==
    /\ Len(xrandrRuns) = Len(Card0Events)
    /\ \A i \in DOMAIN xrandrRuns : xrandrRuns[i].sysname = "card0"

MonitorStep == udevLog' # udevLog \/ xrandrRuns' # xrandrRuns \/ monitorCalls' # monitorCalls

C20_MonitorOnlyReconfigures ==
    /\ []C20_XrandrForCard0
    /\ [][MonitorStep =>
            UNCHANGED <<chanVars, hostOut, clipVars, DBUS_NOTIFICATION_ID>>]_vars

\* The monitor has read an event of another device and a card0 event, and
\* has invoked xrandr once.
C20_Witness ==
    /\ \E i \in DOMAIN udevLog : udevLog[i] = "sda"
    /\ \E i \in DOMAIN udevLog : udevLog[i] = "card0"
    /\ Len(xrandrRuns) = 1

(***************************************************************************)
(* C21: In the handler of a RemoteClipboardEvent the main thread raises    *)
(* cb_used_flag in a step of its own before the step that stores the       *)
(* remote value; no step of another thread raises the flag; and no step of *)
(* the main thread lowers it.                                              *)
(***************************************************************************)
RemoteStored ==
    /\ Len(cbChanges') = Len(cbChanges) + 1
    /\ cbChanges'[Len(cbChanges')].by = "main"

StoreReached == pc # "rclip_store" /\ pc' = "rclip_store"

FlagRaised == ~cb_used_flag /\ cb_used_flag'

FlagLowered == cb_used_flag /\ ~cb_used_flag'

C21_FlagBeforeStore ==
    /\ [][RemoteStored => (pc = "rclip_store" /\ cur.type = "RemoteClipboardEvent")]_vars
    /\ [][StoreReached => (pc = "rclip_flag" /\ cb_used_flag' /\ UNCHANGED clipboard)]_vars
    /\ [][FlagRaised => (pc = "rclip_flag" /\ pc' = "rclip_store")]_vars
    /\ [][FlagLowered => UNCHANGED mainVars]_vars

\* A remote value has been stored by the main thread and the flag raised for
\* it is still up.
C21_Witness ==
    /\ pc = "recv"
    /\ clipboard.by = "main"
    /\ clipboard.origin = "remote"
    /\ cb_used_flag

(***************************************************************************)
(* C22: Every exit code written to the host comes after a delivered ack 0  *)
(* for the run request of the same application, and the exit codes written *)
(* are never more than the ack-0 acks written for run requests.            *)
(***************************************************************************)
ExitCodesWritten == {j \in DOMAIN hostOut : hostOut[j].kind = "exit_code"}

RunAcksWritten ==
    {i \in DOMAIN hostOut :
        /\ hostOut[i].kind = "ack"
        /\ hostOut[i].code = 0
        /\ hostLog[hostOut[i].req] = "AgentRunRequest"}

C22_AckBeforeExitCode ==
    /\ \A j \in ExitCodesWritten :
        \E i \in RunAcksWritten :
            /\ i < j
            /\ hostOut[i].req = hostOut[j].req
            /\ hostOut[i].ok
    /\ \A j1, j2 \in ExitCodesWritten : hostOut[j1].req = hostOut[j2].req => j1 = j2
    /\ Cardinality(ExitCodesWritten) <= Cardinality(RunAcksWritten)

\* Two applications were started and both have terminated: two acks 0 and
\* two exit codes have been written.
C22_Witness ==
    /\ Cardinality(ExitCodesWritten) = 2
    /\ Cardinality(RunAcksWritten) = 2
    /\ procState = "running"

(***************************************************************************)
(* C23: The notifications written to the host carry strictly increasing    *)
(* ids, in the order of the writes.                                        *)
(***************************************************************************)
NotificationsWritten == SelectSeq(hostOut, LAMBDA o : o.kind = "notification")

====
